---- MODULE Spec2Model ----
(***************************************************************************)
(* Model of resin_mm_flat_params.py: the market-making engine              *)
(* mm_Product_Strategy.makeOrders, the concrete Rainforest_Resin_Strategy, *)
(* the strategies registry and the dispatch loop Trader.run.               *)
(*                                                                         *)
(* An order book side is a Python dict; it is modelled as the sequence of  *)
(* its (price, volume) items in iteration order, with distinct prices.     *)
(* logger.print / logger.flush only build a log string and are left out.   *)
(***************************************************************************)
EXTENDS Integers, Sequences, FiniteSets, TLC

VARIABLES
    limit,              \* self.limit
    custom_limit,       \* self.custom_limit
    spread,             \* self.spread
    liquidate_val,      \* self.liquidate_val
    position,           \* state.position: dict Symbol -> int (a function)
    sell_orders,        \* state.order_depths[productSymbol].sell_orders
    buy_orders,         \* state.order_depths[productSymbol].buy_orders
    market_trades,      \* keys of state.market_trades
    depth_keys,         \* keys of state.order_depths
    pc,                 \* control position inside makeOrders
    i,                  \* index of the next item of the running for loop
    current_position,   \* local current_position
    fair_buy_price,     \* local fair_buy_price
    fair_sell_price,    \* local fair_sell_price
    orders,             \* local orders
    run_pc,             \* control position inside Trader.run
    todo,               \* keys of market_trades the for loop has not visited
    product,            \* loop variable product of Trader.run
    result              \* local result of Trader.run

vars == <<limit, custom_limit, spread, liquidate_val, position, sell_orders,
          buy_orders, market_trades, depth_keys, pc, i, current_position,
          fair_buy_price, fair_sell_price, orders, run_pc, todo, product,
          result>>

strategyVars == <<limit, custom_limit, spread, liquidate_val>>
stateVars == <<position, sell_orders, buy_orders, market_trades, depth_keys>>
runVars == <<run_pc, todo, product, result>>

(***************************************************************************)
(* Program constants                                                       *)
(***************************************************************************)
productSymbol == "RAINFOREST_RESIN"
Resin_limit == 50
Resin_spread == 2
Resin_custom_limit == 15
Resin_liquidate_val == 0
fairValue == 10000

\* keys of the module-level registry
strategies == {"RAINFOREST_RESIN"}

(***************************************************************************)
(* Bounds and input sets                                                   *)
(***************************************************************************)
MaxLevels == 2
\* book depth per side in the specifications of Trader.run and of construction
RunLevels == 1

\* instruments a snapshot may mention: the registered one and one that is not
Products == {"RAINFOREST_RESIN", "KELP"}

StartPositions ==
    {-Resin_limit, -20, -Resin_custom_limit, 1 - Resin_custom_limit, 0,
     10, Resin_custom_limit - 1, Resin_custom_limit, 20, Resin_limit}

\* per side: the normal take threshold, the liquidation take threshold and a
\* price between the two
SellPrices == {fairValue - Resin_spread, fairValue - Resin_spread + 1,
               fairValue + Resin_liquidate_val}
BuyPrices == {fairValue + Resin_spread, fairValue + Resin_spread - 1,
              fairValue - Resin_liquidate_val}

\* sign convention: sell-side volumes negative, buy-side volumes positive
SellVolumes == {-5, -35}
BuyVolumes == {4, 35}

\* dicts of at most n items: item sequences with pairwise distinct keys
Dicts(P, V, n) ==
    UNION {{s \in [1..k -> P \X V] :
               \A a, b \in 1..k : a # b => s[a][1] # s[b][1]} : k \in 0..n}

Positions == {<<>>} \cup {(productSymbol :> p) : p \in StartPositions}

(***************************************************************************)
(* Helpers of makeOrders                                                   *)
(***************************************************************************)
Order(symbol, price, quantity) ==
    [symbol |-> symbol, price |-> price, quantity |-> quantity]

\* line 161
StartPosition(pos) ==
    IF productSymbol \notin DOMAIN pos THEN 0 ELSE pos[productSymbol]

\* lines 167-170
AdjustBuyPrice(cur, fair_price) ==
    IF cur <= -custom_limit THEN fair_price + liquidate_val
                            ELSE fair_price - spread

\* lines 171-174
AdjustSellPrice(cur, fair_price) ==
    IF cur >= custom_limit THEN fair_price - liquidate_val
                           ELSE fair_price + spread

\* faulty variant: the short threshold tested with < instead of <=
ReAdjustBuyPrice_Strict(cur, fair_price) ==
    IF cur < -custom_limit THEN fair_price + liquidate_val
                           ELSE fair_price - spread

\* lines 194-197
ReAdjustBuyPrice(cur, fair_price) ==
    IF cur <= -custom_limit THEN fair_price + liquidate_val
                            ELSE fair_price - spread

\* lines 198-201
ReAdjustSellPrice(cur, fair_price) ==
    IF cur >= custom_limit THEN fair_price - liquidate_val
                           ELSE fair_price + spread

\* faulty variant: the limit tested on the position before the fill
TakeSellLevel_BeforeFill(price, volume, cur, buyPrice) ==
    price <= buyPrice /\ cur <= limit

\* faulty variant: the limit tested with < instead of <=
TakeSellLevel_StrictLimit(price, volume, cur, buyPrice) ==
    price <= buyPrice /\ cur - volume < limit

\* line 181
TakeSellLevel(price, volume, cur, buyPrice) ==
    price <= buyPrice /\ cur - volume <= limit

\* faulty variant: the price tested with > instead of >=
TakeBuyLevel_Exclusive(price, volume, cur, sellPrice) ==
    price > sellPrice /\ cur - volume >= -limit

\* line 188
TakeBuyLevel(price, volume, cur, sellPrice) ==
    price >= sellPrice /\ cur - volume >= -limit

\* faulty variant: the liquidation quantity with the wrong sign
OwnOrders_SignSlip(cur, buyPrice, sellPrice) ==
    IF cur <= -custom_limit
        THEN <<Order(productSymbol, buyPrice, cur)>>
    ELSE IF cur >= custom_limit
        THEN <<Order(productSymbol, sellPrice, cur)>>
    ELSE <<Order(productSymbol, buyPrice, custom_limit),
           Order(productSymbol, sellPrice, -custom_limit)>>

\* faulty variant: the quotes clipped to the headroom under custom_limit
OwnOrders_Headroom(cur, buyPrice, sellPrice) ==
    IF cur <= -custom_limit
        THEN <<Order(productSymbol, buyPrice, -cur)>>
    ELSE IF cur >= custom_limit
        THEN <<Order(productSymbol, sellPrice, -cur)>>
    ELSE <<Order(productSymbol, buyPrice, custom_limit - cur),
           Order(productSymbol, sellPrice, -custom_limit - cur)>>

\* faulty variant: the band tested with < and > instead of <= and >=
OwnOrders_StrictBand(cur, buyPrice, sellPrice) ==
    IF cur < -custom_limit
        THEN <<Order(productSymbol, buyPrice, -cur)>>
    ELSE IF cur > custom_limit
        THEN <<Order(productSymbol, sellPrice, -cur)>>
    ELSE <<Order(productSymbol, buyPrice, custom_limit),
           Order(productSymbol, sellPrice, -custom_limit)>>

\* lines 203-216: the orders phase 2 appends
OwnOrders(cur, buyPrice, sellPrice) ==
    IF cur <= -custom_limit
        THEN <<Order(productSymbol, buyPrice, -cur)>>
    ELSE IF cur >= custom_limit
        THEN <<Order(productSymbol, sellPrice, -cur)>>
    ELSE <<Order(productSymbol, buyPrice, custom_limit),
           Order(productSymbol, sellPrice, -custom_limit)>>

(***************************************************************************)
(* makeOrders, one action per step                                         *)
(***************************************************************************)
\* lines 157-174
EnterMakeOrders ==
    /\ pc = "call"
    /\ productSymbol \in depth_keys
    /\ orders' = <<>>
    /\ current_position' = StartPosition(position)
    /\ fair_buy_price' = AdjustBuyPrice(StartPosition(position), fairValue)
    /\ fair_sell_price' = AdjustSellPrice(StartPosition(position), fairValue)
    /\ i' = 1
    /\ pc' = "sell_loop"
    /\ UNCHANGED <<strategyVars, stateVars, runVars>>

\* lines 180-184, one iteration
SellLoopStep ==
    /\ pc = "sell_loop"
    /\ i <= Len(sell_orders)
    /\ LET price == sell_orders[i][1]
           volume == sell_orders[i][2]
       IN  IF TakeSellLevel(price, volume, current_position, fair_buy_price)
             THEN /\ orders' = Append(orders, Order(productSymbol, price, -volume))
                  /\ current_position' = current_position - volume
             ELSE UNCHANGED <<orders, current_position>>
    /\ i' = i + 1
    /\ UNCHANGED <<strategyVars, stateVars, runVars, pc, fair_buy_price,
                   fair_sell_price>>

\* line 180, the dict is exhausted
SellLoopExit ==
    /\ pc = "sell_loop"
    /\ i > Len(sell_orders)
    /\ i' = 1
    /\ pc' = "buy_loop"
    /\ UNCHANGED <<strategyVars, stateVars, runVars, current_position,
                   fair_buy_price, fair_sell_price, orders>>

\* lines 187-191, one iteration
BuyLoopStep ==
    /\ pc = "buy_loop"
    /\ i <= Len(buy_orders)
    /\ LET price == buy_orders[i][1]
           volume == buy_orders[i][2]
       IN  IF TakeBuyLevel(price, volume, current_position, fair_sell_price)
             THEN /\ orders' = Append(orders, Order(productSymbol, price, -volume))
                  /\ current_position' = current_position - volume
             ELSE UNCHANGED <<orders, current_position>>
    /\ i' = i + 1
    /\ UNCHANGED <<strategyVars, stateVars, runVars, pc, fair_buy_price,
                   fair_sell_price>>

\* line 187, the dict is exhausted
BuyLoopExit ==
    /\ pc = "buy_loop"
    /\ i > Len(buy_orders)
    /\ i' = 0
    /\ pc' = "post"
    /\ UNCHANGED <<strategyVars, stateVars, runVars, current_position,
                   fair_buy_price, fair_sell_price, orders>>

\* lines 193-217
PostOrders ==
    /\ pc = "post"
    /\ fair_buy_price' = ReAdjustBuyPrice(current_position, fairValue)
    /\ fair_sell_price' = ReAdjustSellPrice(current_position, fairValue)
    /\ orders' = orders \o OwnOrders(current_position, fair_buy_price',
                                     fair_sell_price')
    /\ pc' = "done"
    /\ UNCHANGED <<strategyVars, stateVars, runVars, i, current_position>>

MakeOrdersNext ==
    \/ EnterMakeOrders
    \/ SellLoopStep
    \/ SellLoopExit
    \/ BuyLoopStep
    \/ BuyLoopExit
    \/ PostOrders

(***************************************************************************)
(* Specification of one makeOrders call on the Rainforest_Resin_Strategy   *)
(***************************************************************************)
\* lines 222-229
ResinConstructed ==
    /\ limit = Resin_limit
    /\ spread = Resin_spread
    /\ custom_limit = Resin_custom_limit
    /\ liquidate_val = Resin_liquidate_val

LocalsUnset ==
    /\ i = 0
    /\ current_position = 0
    /\ fair_buy_price = 0
    /\ fair_sell_price = 0
    /\ orders = <<>>

Init ==
    /\ ResinConstructed
    /\ position \in Positions
    /\ sell_orders \in Dicts(SellPrices, SellVolumes, MaxLevels)
    /\ buy_orders \in Dicts(BuyPrices, BuyVolumes, MaxLevels)
    /\ market_trades = {productSymbol}
    /\ depth_keys = {productSymbol}
    /\ pc = "call"
    /\ LocalsUnset
    /\ run_pc = "in_call"
    /\ todo = {}
    /\ product = productSymbol
    /\ result = <<>>

Next == MakeOrdersNext

Spec == Init /\ [][Next]_vars

(***************************************************************************)
(* makeOrders as a function of the snapshot (the same steps, folded)       *)
(***************************************************************************)
RECURSIVE SellScan(_, _, _, _)
\* lines 180-184, the whole loop
SellScan(levels, cur, buyPrice, acc) ==
    IF levels = <<>> THEN [orders |-> acc, current_position |-> cur]
    ELSE LET price == Head(levels)[1]
             volume == Head(levels)[2]
         IN  IF TakeSellLevel(price, volume, cur, buyPrice)
               THEN SellScan(Tail(levels), cur - volume, buyPrice,
                             Append(acc, Order(productSymbol, price, -volume)))
               ELSE SellScan(Tail(levels), cur, buyPrice, acc)

RECURSIVE BuyScan(_, _, _, _)
\* lines 187-191, the whole loop
BuyScan(levels, cur, sellPrice, acc) ==
    IF levels = <<>> THEN [orders |-> acc, current_position |-> cur]
    ELSE LET price == Head(levels)[1]
             volume == Head(levels)[2]
         IN  IF TakeBuyLevel(price, volume, cur, sellPrice)
               THEN BuyScan(Tail(levels), cur - volume, sellPrice,
                            Append(acc, Order(productSymbol, price, -volume)))
               ELSE BuyScan(Tail(levels), cur, sellPrice, acc)

\* lines 155-217
MakeOrders(pos, sells, buys) ==
    LET start == StartPosition(pos)
        taken == SellScan(sells, start, AdjustBuyPrice(start, fairValue), <<>>)
        sold == BuyScan(buys, taken.current_position,
                        AdjustSellPrice(start, fairValue), taken.orders)
        cur == sold.current_position
    IN  [orders |-> sold.orders \o
                    OwnOrders(cur, ReAdjustBuyPrice(cur, fairValue),
                              ReAdjustSellPrice(cur, fairValue)),
         current_position |-> cur]

(***************************************************************************)
(* Trader.run                                                              *)
(***************************************************************************)
\* line 159 when the snapshot holds no order book for productSymbol: the
\* KeyError is caught neither by makeOrders nor by Trader.run
MakeOrdersKeyError ==
    /\ pc = "call"
    /\ productSymbol \notin depth_keys
    /\ pc' = "KeyError"
    /\ run_pc' = "KeyError"
    /\ UNCHANGED <<strategyVars, stateVars, i, current_position, fair_buy_price,
                   fair_sell_price, orders, todo, product, result>>

\* lines 243-247
RunEnter ==
    /\ run_pc = "start"
    /\ result' = <<>>
    /\ todo' = market_trades
    /\ run_pc' = "loop"
    /\ UNCHANGED <<strategyVars, stateVars, pc, i, current_position,
                   fair_buy_price, fair_sell_price, orders, product>>

\* lines 247-249
RunSkip ==
    /\ run_pc = "loop"
    /\ \E p \in todo :
        /\ p \notin strategies
        /\ product' = p
        /\ todo' = todo \ {p}
    /\ UNCHANGED <<strategyVars, stateVars, pc, i, current_position,
                   fair_buy_price, fair_sell_price, orders, run_pc, result>>

\* lines 247-250, up to the call
RunCall ==
    /\ run_pc = "loop"
    /\ \E p \in todo :
        /\ p \in strategies
        /\ product' = p
        /\ todo' = todo \ {p}
    /\ pc' = "call"
    /\ run_pc' = "in_call"
    /\ UNCHANGED <<strategyVars, stateVars, i, current_position, fair_buy_price,
                   fair_sell_price, orders, result>>

\* lines 250-251, from the return of makeOrders
RunCollect ==
    /\ run_pc = "in_call"
    /\ pc = "done"
    /\ result' = (product :> orders) @@ result
    /\ pc' = "idle"
    /\ run_pc' = "loop"
    /\ UNCHANGED <<strategyVars, stateVars, i, current_position, fair_buy_price,
                   fair_sell_price, orders, todo, product>>

\* lines 252-253
RunReturn ==
    /\ run_pc = "loop"
    /\ todo = {}
    /\ run_pc' = "returned"
    /\ UNCHANGED <<strategyVars, stateVars, pc, i, current_position,
                   fair_buy_price, fair_sell_price, orders, todo, product, result>>

InitRun ==
    /\ ResinConstructed
    /\ position \in Positions
    /\ depth_keys \in SUBSET Products
    /\ market_trades \in SUBSET Products
    /\ IF productSymbol \in depth_keys
         THEN /\ sell_orders \in Dicts(SellPrices, SellVolumes, RunLevels)
              /\ buy_orders \in Dicts(BuyPrices, BuyVolumes, RunLevels)
         ELSE /\ sell_orders = <<>>
              /\ buy_orders = <<>>
    /\ pc = "idle"
    /\ LocalsUnset
    /\ run_pc = "start"
    /\ todo = {}
    /\ product = ""
    /\ result = <<>>

NextRun ==
    \/ RunEnter
    \/ RunSkip
    \/ RunCall
    \/ MakeOrdersKeyError
    \/ MakeOrdersNext
    \/ RunCollect
    \/ RunReturn

SpecRun == InitRun /\ [][NextRun]_vars

(***************************************************************************)
(* One makeOrders call on a strategy built from mm_Product_Strategy with   *)
(* other parameters: __init__ (lines 136-144) declares the fields and      *)
(* checks nothing, the subclass assigns them as lines 224-229 do.          *)
(***************************************************************************)
CustomLimits == {Resin_custom_limit, Resin_limit, Resin_limit + 1}

InitCfg ==
    /\ limit = Resin_limit
    /\ spread = Resin_spread
    /\ custom_limit \in CustomLimits
    /\ liquidate_val = Resin_liquidate_val
    /\ position \in Positions
    /\ sell_orders \in Dicts(SellPrices, SellVolumes, RunLevels)
    /\ buy_orders \in Dicts(BuyPrices, BuyVolumes, RunLevels)
    /\ market_trades = {productSymbol}
    /\ depth_keys = {productSymbol}
    /\ pc = "call"
    /\ LocalsUnset
    /\ run_pc = "in_call"
    /\ todo = {}
    /\ product = productSymbol
    /\ result = <<>>

SpecCfg == InitCfg /\ [][Next]_vars

(***************************************************************************)
(* Sanity of the model                                                     *)
(***************************************************************************)
TypeOK ==
    /\ limit \in Nat /\ custom_limit \in Nat /\ spread \in Nat
    /\ liquidate_val \in Nat
    /\ position \in Positions
    /\ sell_orders \in Seq(SellPrices \X SellVolumes)
    /\ buy_orders \in Seq(BuyPrices \X BuyVolumes)
    /\ pc \in {"idle", "call", "sell_loop", "buy_loop", "post", "done", "KeyError"}
    /\ run_pc \in {"start", "loop", "in_call", "returned", "KeyError"}
    /\ i \in Nat /\ current_position \in Int
    /\ todo \subseteq market_trades
    /\ DOMAIN result \subseteq strategies

\* the step actions compute what the folded function computes
StepsAgreeWithMakeOrders ==
    pc = "done" =>
        /\ orders = MakeOrders(position, sell_orders, buy_orders).orders
        /\ current_position =
               MakeOrders(position, sell_orders, buy_orders).current_position

(***************************************************************************)
(* Operators the claims are stated with                                    *)
(***************************************************************************)
RECURSIVE SumQuantity(_)
SumQuantity(os) ==
    IF os = <<>> THEN 0 ELSE Head(os).quantity + SumQuantity(Tail(os))

IsBuy(o) == o.quantity > 0
IsSell(o) == o.quantity < 0
BuyQuantity(os) == SumQuantity(SelectSeq(os, IsBuy))
SellQuantity(os) == SumQuantity(SelectSeq(os, IsSell))

Range(s) == {s[k] : k \in DOMAIN s}

\* every visiting order of the items of a dict
Permutations_(s) ==
    {t \in [DOMAIN s -> Range(s)] : Range(t) = Range(s)}

InPhase1 == pc \in {"sell_loop", "buy_loop", "post"}
InBand(cur) == -custom_limit < cur /\ cur < custom_limit

\* the skewed price rule as the specification words it
SkewedBuyPrice(pos) ==
    IF pos <= -custom_limit THEN fairValue + liquidate_val ELSE fairValue - spread
SkewedSellPrice(pos) ==
    IF pos >= custom_limit THEN fairValue - liquidate_val ELSE fairValue + spread

\* total volume of the levels of a side that pass the price test
RECURSIVE SellVolumeAtOrBelow(_, _)
SellVolumeAtOrBelow(levels, buyPrice) ==
    IF levels = <<>> THEN 0
    ELSE (IF Head(levels)[1] <= buyPrice THEN -Head(levels)[2] ELSE 0)
         + SellVolumeAtOrBelow(Tail(levels), buyPrice)

RECURSIVE BuyVolumeAtOrAbove(_, _)
BuyVolumeAtOrAbove(levels, sellPrice) ==
    IF levels = <<>> THEN 0
    ELSE (IF Head(levels)[1] >= sellPrice THEN Head(levels)[2] ELSE 0)
         + BuyVolumeAtOrAbove(Tail(levels), sellPrice)

\* every level that passes the price test fits under the limit together with
\* all the others of its side
AllQualifyingLevelsFit ==
    LET start == StartPosition(position)
        bought == SellVolumeAtOrBelow(sell_orders, SkewedBuyPrice(start))
        sold == BuyVolumeAtOrAbove(buy_orders, SkewedSellPrice(start))
    IN  /\ start + bought <= limit
        /\ start + bought - sold >= -limit

SameResultForEveryVisitingOrder ==
    \A s \in Permutations_(sell_orders) : \A b \in Permutations_(buy_orders) :
        LET r == MakeOrders(position, s, b)
        IN  /\ Range(r.orders) = Range(orders)
            /\ r.current_position = current_position

(***************************************************************************)
(* Claims                                                                  *)
(***************************************************************************)

\* C1: when makeOrders returns, the starting position plus the signed
\* quantities of all returned orders lies within [-limit, limit].
C1_PositionBound ==
    pc = "done" =>
        /\ StartPosition(position) + SumQuantity(orders) <= limit
        /\ StartPosition(position) + SumQuantity(orders) >= -limit

\* a liquidation of a position that phase 1 itself built up
C1_Witness ==
    /\ pc = "done"
    /\ Len(orders) >= 2
    /\ InBand(StartPosition(position))
    /\ current_position >= custom_limit

\* C2: when makeOrders returns, the starting position plus the quantities of
\* the buy orders alone is at most limit, and the starting position plus the
\* quantities of the sell orders alone is at least -limit.
C2_OneSidedBound ==
    pc = "done" =>
        /\ StartPosition(position) + BuyQuantity(orders) <= limit
        /\ StartPosition(position) + SellQuantity(orders) >= -limit

\* C3: the running position stays within [-limit, limit] at every point of
\* the sell-side scan and of the buy-side scan and when phase 2 begins.
C3_RunningPositionBound ==
    InPhase1 => -limit <= current_position /\ current_position <= limit

\* phase 1 has bought up to exactly the hard limit
C3_Witness ==
    /\ pc = "buy_loop"
    /\ Len(orders) > 0
    /\ current_position = limit

\* C4: before phase 1 the two prices follow the skewed price rule of the
\* starting position, after phase 1 they follow the same rule of the running
\* position.
C4_SkewedPrices ==
    /\ InPhase1 =>
        /\ fair_buy_price = SkewedBuyPrice(StartPosition(position))
        /\ fair_sell_price = SkewedSellPrice(StartPosition(position))
    /\ pc = "done" =>
        /\ fair_buy_price = SkewedBuyPrice(current_position)
        /\ fair_sell_price = SkewedSellPrice(current_position)

\* phase 1 moved the position across the short threshold, so the recomputed
\* buy price differs from the first one
C4_Witness ==
    /\ pc = "done"
    /\ StartPosition(position) > -custom_limit
    /\ current_position <= -custom_limit
    /\ fair_buy_price = fairValue + liquidate_val
    /\ fair_buy_price # fairValue - spread

\* C5: with the running position strictly inside the band, phase 2 appends
\* exactly a buy of custom_limit at fairValue - spread and then a sell of
\* custom_limit at fairValue + spread, unclipped.
C5_NormalBandQuotes ==
    [][(pc = "post" /\ InBand(current_position)) =>
          orders' = orders \o
              <<Order(productSymbol, fairValue - spread, custom_limit),
                Order(productSymbol, fairValue + spread, -custom_limit)>>]_vars

\* normal-band quotes after phase-1 takes, away from position zero
C5_Witness ==
    /\ pc = "done"
    /\ InBand(current_position)
    /\ current_position # 0
    /\ current_position # StartPosition(position)
    /\ Len(orders) >= 3

\* C6: with the running position at or beyond the band, phase 2 appends one
\* order only, at the liquidation price, of quantity minus the running
\* position; an empty book at position -20 yields the single buy of 20.
C6_Liquidation ==
    /\ [][(pc = "post" /\ current_position <= -custom_limit) =>
             orders' = Append(orders, Order(productSymbol,
                                  fairValue + liquidate_val, -current_position))]_vars
    /\ [][(pc = "post" /\ current_position >= custom_limit) =>
             orders' = Append(orders, Order(productSymbol,
                                  fairValue - liquidate_val, -current_position))]_vars
    /\ []((/\ pc = "done"
           /\ StartPosition(position) = -20
           /\ sell_orders = <<>>
           /\ buy_orders = <<>>)
          => orders = <<Order(productSymbol, fairValue + liquidate_val, 20)>>)

\* liquidation decided by the running position, not the starting one
C6_Witness ==
    /\ pc = "done"
    /\ StartPosition(position) > -custom_limit
    /\ current_position <= -custom_limit
    /\ orders[Len(orders)] =
           Order(productSymbol, fairValue + liquidate_val, -current_position)
    /\ current_position + orders[Len(orders)].quantity = 0

\* C7: Trader.run returns in every step, and what it returns holds an order
\* list for exactly the instruments that have an order book in the snapshot
\* and a registry entry.
C7_DispatchCoverage ==
    /\ run_pc # "KeyError"
    /\ run_pc = "returned" => DOMAIN result = depth_keys \cap strategies

\* C8: a strategy whose custom_limit is greater than its limit never gets
\* through makeOrders to emit orders.
C8_ConfigurationCheck ==
    custom_limit > limit => orders = <<>>

\* C9: a level is taken, for its full volume, exactly when it passes the
\* inclusive price test and the limit test; any other level is skipped and
\* the scan goes on; the worked scenario yields its four orders.
C9_TakeRule ==
    /\ [][(pc = "sell_loop" /\ i <= Len(sell_orders)) =>
             LET p == sell_orders[i][1]
                 v == sell_orders[i][2]
             IN  /\ IF p <= fair_buy_price /\ current_position - v <= limit
                      THEN /\ orders' = Append(orders, Order(productSymbol, p, -v))
                           /\ current_position' = current_position - v
                      ELSE /\ orders' = orders
                           /\ current_position' = current_position
                 /\ pc' = "sell_loop"
                 /\ i' = i + 1]_vars
    /\ [][(pc = "buy_loop" /\ i <= Len(buy_orders)) =>
             LET p == buy_orders[i][1]
                 v == buy_orders[i][2]
             IN  /\ IF p >= fair_sell_price /\ current_position - v >= -limit
                      THEN /\ orders' = Append(orders, Order(productSymbol, p, -v))
                           /\ current_position' = current_position - v
                      ELSE /\ orders' = orders
                           /\ current_position' = current_position
                 /\ pc' = "buy_loop"
                 /\ i' = i + 1]_vars
    /\ []((/\ pc = "done"
           /\ StartPosition(position) = 0
           /\ sell_orders = <<<<9998, -5>>>>
           /\ buy_orders = <<<<10002, 4>>>>)
          => orders = <<Order(productSymbol, 9998, 5),
                        Order(productSymbol, 10002, -4),
                        Order(productSymbol, 9998, 15),
                        Order(productSymbol, 10002, -15)>>)

\* a level that fails the test is skipped and the level after it is taken
C9_Witness ==
    /\ pc = "buy_loop"
    /\ Len(sell_orders) = 2
    /\ orders = <<Order(productSymbol, sell_orders[2][1], -sell_orders[2][2])>>

\* C10 as claimed: the set of returned orders and the running position after
\* phase 1 are the same for every visiting order of the two sides.
C10_OrderIndependence ==
    pc = "done" => SameResultForEveryVisitingOrder

\* C10 amended: they are the same for every visiting order whenever all the
\* levels that pass the price test fit under the limit together.
C10_OrderIndependenceWhenAllFit ==
    (pc = "done" /\ AllQualifyingLevelsFit) => SameResultForEveryVisitingOrder

\* two sell levels, both taken, and a buy level taken after them
C10_Witness ==
    /\ pc = "done"
    /\ AllQualifyingLevelsFit
    /\ Len(sell_orders) = 2
    /\ Len(orders) >= 4
    /\ orders[1].quantity > 0
    /\ orders[2].quantity > 0
    /\ orders[3].quantity < 0
    /\ orders[3].price \in {buy_orders[k][1] : k \in DOMAIN buy_orders}

====
